---- MODULE Spec2Model ----
(***************************************************************************)
(* Model of the locker allocation engine of src/main.py: main() builds the *)
(* submissions of both roles, then runs process_term for the terms         *)
(* 0..max_term in order, carrying the set ineligible_ids from term to term.*)
(* process_term is modelled block by block (one action per commented      *)
(* block of the function); pc is the position in main / process_term.      *)
(***************************************************************************)
EXTENDS Integers, Sequences, FiniteSets, TLC

VARIABLES
    apps,               \* main: apps, list of applicant Submission (with .error)
    pars,               \* main: pars, list of partner Submission (with .error)
    pc,                 \* position in main / process_term
    term,               \* main: loop variable of "for term in range(max_term + 1)"
    ineligible_ids,     \* main: ineligible_ids
    candidates,         \* process_term: candidates of line 231 (refs, in list order)
    kept,               \* process_term: kept of line 234 (refs, in dict order)
    paired_partner_ids, \* process_term: paired_partner_ids
    valid_rows,         \* process_term: valid_rows
    results,            \* rows returned by process_term, per finished term
    run,                \* how many times process_term has been entered for this term
    first,              \* outcome of the first process_term call of this term
    files,              \* main: app_columns, app_rows, par_columns, par_rows,
                        \* live until build_submissions has made apps and pars
    id_chars,           \* is_valid_student_id: the characters of its argument
    id_match            \* is_valid_student_id: its result

vars == <<apps, pars, pc, term, ineligible_ids, candidates, kept,
          paired_partner_ids, valid_rows, results, run, first, files, id_chars, id_match>>

\* what no step of main or process_term writes
inputs == <<files, id_chars, id_match>>

-----------------------------------------------------------------------------
(* Bounds of the model *)

\* most applicant rows in applicant_data.csv
MaxApps == 2
\* most partner rows in partner_data.csv
MaxPars == 1

-----------------------------------------------------------------------------
(* Values *)

None == "None"
NoFloor == << >>

\* "利用規約に同意する"
CONSENT_OK == "agree"
\* "accept"
PHOTO_OK == "accept"
\* "共同利用者あり"
WITH_PARTNER == "with"
\* "共同利用者なし (2階・3階のロッカーは使用できません)"
WITHOUT_PARTNER == "without"

WEEK == 7 * 24 * 60 * 60
DAY == 24 * 60 * 60
YEAR == 365 * DAY

\* the student ids that occur in the rows; "" is an empty field
ID_A == "1500001"
ID_B == "4100002"
ID_P == "8600003"
ID_SIX == "150001"
EMPTY == ""

\* the characters of a student id, a digit being written as its value
Chars(value) ==
    CASE value = ID_A -> <<1, 5, 0, 0, 0, 0, 1>>
      [] value = ID_B -> <<4, 1, 0, 0, 0, 0, 2>>
      [] value = ID_P -> <<8, 6, 0, 0, 0, 0, 3>>
      [] value = ID_SIX -> <<1, 5, 0, 0, 0, 1>>
      [] value = EMPTY -> << >>

\* a character is written as a number: an ASCII digit as its value,
Digit == 0..9
\* "\uFF11" (FULLWIDTH DIGIT ONE): a decimal digit of Unicode outside ASCII
CH_FULLWIDTH_1 == 10
\* "a"
CH_LETTER == 11
\* "\n"
CH_NEWLINE == 12

\* \d of a str pattern: any Unicode decimal digit
UnicodeDigit == Digit \cup {CH_FULLWIDTH_1}

-----------------------------------------------------------------------------
(* STUDENT_ID_RE = ^(15\d{5}|[48][1-6]\d{5})$ and is_valid_student_id *)

AllDigits(s, from) == \A i \in from..Len(s) : s[i] \in UnicodeDigit

\* $ without re.MULTILINE matches at the end of the string and also just
\* before a line feed that ends the string: what the group has to match
BeforeDollar(chars) ==
    IF chars # << >> /\ chars[Len(chars)] = CH_NEWLINE
    THEN {chars, SubSeq(chars, 1, Len(chars) - 1)}
    ELSE {chars}

\* the pattern as the specification words it: six digits
STUDENT_ID_RE_SIX(chars) ==
    /\ Len(chars) = 6
    /\ \/ chars[1] = 1 /\ chars[2] = 5
       \/ chars[1] \in {4, 8} /\ chars[2] \in 1..6
    /\ AllDigits(chars, 3)

\* re.match of the pattern on a string given by its characters
STUDENT_ID_RE(chars) ==
    \E body \in BeforeDollar(chars) :
        /\ Len(body) = 7
        /\ \/ body[1] = 1 /\ body[2] = 5
           \/ body[1] \in {4, 8} /\ body[2] \in 1..6
        /\ AllDigits(body, 3)

is_valid_student_id(value) == STUDENT_ID_RE(Chars(value))

-----------------------------------------------------------------------------
(* parse_timestamp: datetime.strptime(value, "%Y-%m-%d %H:%M:%S").  The     *)
(* datetime is written as its number of seconds since 2025-04-01 00:00:00.  *)

T_MARCH_31 == "2025-03-31 23:59:59"
T_APRIL_1 == "2025-04-01 00:00:00"
T_APRIL_1_1S == "2025-04-01 00:00:01"
T_APRIL_7 == "2025-04-07 23:59:59"
T_APRIL_8 == "2025-04-08 00:00:00"
T_APRIL_14 == "2025-04-14 23:59:59"
T_APRIL_15 == "2025-04-15 00:00:00"

\* strings that are not of the format
BadTimestamps == {"2025/04/01 00:00:00", ""}

BoundaryTimestamps == {T_APRIL_7, T_APRIL_8, T_APRIL_14, T_APRIL_15}

Parses(value) ==
    value \in {T_MARCH_31, T_APRIL_1, T_APRIL_1_1S, T_APRIL_7, T_APRIL_8,
               T_APRIL_14, T_APRIL_15}

parse_timestamp(value) ==
    CASE value = T_MARCH_31 -> 0 - 1
      [] value = T_APRIL_1 -> 0
      [] value = T_APRIL_1_1S -> 1
      [] value = T_APRIL_7 -> 6 * 24 * 60 * 60 + 23 * 60 * 60 + 59 * 60 + 59
      [] value = T_APRIL_8 -> 7 * 24 * 60 * 60
      [] value = T_APRIL_14 -> 13 * 24 * 60 * 60 + 23 * 60 * 60 + 59 * 60 + 59
      [] value = T_APRIL_15 -> 14 * 24 * 60 * 60

-----------------------------------------------------------------------------
(* term_index and term_start_from_timestamp.  A timestamp is the number of *)
(* seconds since 1 April 2025 00:00:00; the years from 1 April 2024 to     *)
(* 1 April 2026 have 365 days, and 1 January lies 90 days before 1 April.  *)

\* variant: the quotient is rounded up
term_index_ceiling(ts, start) == (ts - start + WEEK - 1) \div WEEK

term_index(ts, start) == (ts - start) \div WEEK

YearOf(ts) == (ts + 90 * DAY) \div YEAR
AprilFirst(year) == year * YEAR

term_start_from_timestamp(ts) ==
    IF ts < AprilFirst(YearOf(ts))
    THEN AprilFirst(YearOf(ts) - 1)
    ELSE AprilFirst(YearOf(ts))

-----------------------------------------------------------------------------
(* Submission (dataclass) and build_submissions *)

AppSubmission(i, form, ts, start) ==
    [role |-> "app", row_index |-> i, timestamp |-> ts,
     term |-> term_index(ts, start),
     person_id |-> form.person_id, person_name |-> form.person_name,
     photo |-> form.photo, consent |-> form.consent,
     partner_id |-> form.partner_id, partner_name |-> form.partner_name,
     has_partner |-> form.has_partner, floor |-> form.floor,
     error |-> None]

ParSubmission(i, form, ts, start) ==
    [role |-> "par", row_index |-> i, timestamp |-> ts,
     term |-> term_index(ts, start),
     person_id |-> form.person_id, person_name |-> form.person_name,
     photo |-> form.photo, consent |-> form.consent,
     error |-> None]

\* rows are <<form, timestamp>>; row_index is the 0-based position in the file
build_apps(app_rows, start) ==
    [i \in 1..Len(app_rows) |->
        AppSubmission(i - 1, app_rows[i][1], parse_timestamp(app_rows[i][2]), start)]

build_pars(par_rows, start) ==
    [i \in 1..Len(par_rows) |->
        ParSubmission(i - 1, par_rows[i][1], parse_timestamp(par_rows[i][2]), start)]

-----------------------------------------------------------------------------
(* References to the Submission objects of the current run *)

Sub(ref) == IF ref[1] = "app" THEN apps[ref[2]] ELSE pars[ref[2]]

RECURSIVE SelectIdx(_, _, _)
\* the indices i of list with list[i].term = t, in list order, from index i on
SelectIdx(list, t, i) ==
    IF i > Len(list) THEN << >>
    ELSE IF list[i].term = t THEN <<i>> \o SelectIdx(list, t, i + 1)
    ELSE SelectIdx(list, t, i + 1)

\* term_apps, term_pars of main (as indices into apps, pars)
term_apps(t) == SelectIdx(apps, t, 1)
term_pars(t) == SelectIdx(pars, t, 1)

Refs(role, idxs) == [k \in 1..Len(idxs) |-> <<role, idxs[k]>>]

\* "apps + pars" inside process_term
apps_plus_pars(t) == Refs("app", term_apps(t)) \o Refs("par", term_pars(t))

\* variant: the submissions of the earlier terms are handed over again
InTermOrEarlier(list, i) == list[i].term <= term

InTerm(list, i) == list[i].term = term

Range(seq) == {seq[k] : k \in 1..Len(seq)}

Max(S) == CHOOSE x \in S : \A y \in S : y <= x
Min(S) == CHOOSE x \in S : \A y \in S : x <= y

max_term == Max({apps[i].term : i \in 1..Len(apps)} \cup {pars[i].term : i \in 1..Len(pars)})

-----------------------------------------------------------------------------
(* apply_input_validation *)

\* variant: floors 2 and 3 are not reserved for applicants with a partner
apply_input_validation_any_floor(sub) ==
    IF sub.person_id = EMPTY \/ sub.person_name = "" THEN "E1"
    ELSE IF ~is_valid_student_id(sub.person_id) THEN "E1"
    ELSE IF sub.consent # CONSENT_OK THEN "E1"
    ELSE IF sub.photo # PHOTO_OK THEN "E1"
    ELSE IF sub.role = "app" THEN
        IF sub.has_partner \notin {WITH_PARTNER, WITHOUT_PARTNER} THEN "E1"
        ELSE IF sub.floor = NoFloor THEN "E1"
        ELSE IF sub.has_partner = WITH_PARTNER THEN
            IF sub.partner_id = EMPTY \/ sub.partner_name = "" THEN "E1"
            ELSE IF ~is_valid_student_id(sub.partner_id) THEN "E1"
            ELSE None
        ELSE IF sub.partner_id # EMPTY \/ sub.partner_name # "" THEN "E1"
        ELSE None
    ELSE None

apply_input_validation(sub) ==
    IF sub.person_id = EMPTY \/ sub.person_name = "" THEN "E1"
    ELSE IF ~is_valid_student_id(sub.person_id) THEN "E1"
    ELSE IF sub.consent # CONSENT_OK THEN "E1"
    ELSE IF sub.photo # PHOTO_OK THEN "E1"
    ELSE IF sub.role = "app" THEN
        IF sub.has_partner \notin {WITH_PARTNER, WITHOUT_PARTNER} THEN "E1"
        ELSE IF sub.floor = NoFloor THEN "E1"
        ELSE IF sub.floor[1] \in {2, 3} /\ sub.has_partner # WITH_PARTNER THEN "E1"
        ELSE IF sub.has_partner = WITH_PARTNER THEN
            IF sub.partner_id = EMPTY \/ sub.partner_name = "" THEN "E1"
            ELSE IF ~is_valid_student_id(sub.partner_id) THEN "E1"
            ELSE None
        ELSE IF sub.partner_id # EMPTY \/ sub.partner_name # "" THEN "E1"
        ELSE None
    ELSE None

-----------------------------------------------------------------------------
(* choose_latest_by_person and the sort key (timestamp, row_index) *)

KeyLess(s1, s2) ==
    \/ s1.timestamp < s2.timestamp
    \/ s1.timestamp = s2.timestamp /\ s1.row_index < s2.row_index

RECURSIVE Insert(_, _)
\* insert ref into the sorted list of refs, after every element not greater
Insert(sorted, ref) ==
    IF sorted = << >> THEN <<ref>>
    ELSE IF KeyLess(Sub(ref), Sub(sorted[Len(sorted)]))
         THEN Insert(SubSeq(sorted, 1, Len(sorted) - 1), ref) \o <<sorted[Len(sorted)]>>
         ELSE sorted \o <<ref>>

RECURSIVE SortedByKey(_)
\* sorted(items, key=lambda s: (s.timestamp, s.row_index)), a stable sort
SortedByKey(items) ==
    IF items = << >> THEN << >>
    ELSE Insert(SortedByKey(SubSeq(items, 1, Len(items) - 1)), items[Len(items)])

RECURSIVE KeysInOrder(_, _)
\* keys of a dict filled by setdefault over subs: first occurrences, in order
KeysInOrder(keys, seen) ==
    IF keys = << >> THEN << >>
    ELSE IF keys[1] \in seen THEN KeysInOrder(Tail(keys), seen)
    ELSE <<keys[1]>> \o KeysInOrder(Tail(keys), seen \cup {keys[1]})

Group(subs, person_id) ==
    SelectSeq(subs, LAMBDA ref : Sub(ref).person_id = person_id)

by_person_keys(subs) ==
    KeysInOrder([k \in 1..Len(subs) |-> Sub(subs[k]).person_id], {})

Last(seq) == seq[Len(seq)]

\* variant: the earliest submission of each person is kept
choose_earliest_kept(subs) ==
    LET keys == by_person_keys(subs)
    IN  [k \in 1..Len(keys) |-> SortedByKey(Group(subs, keys[k]))[1]]

\* variant: nothing is dropped
choose_all_kept(subs) == subs

choose_latest_kept(subs) ==
    LET keys == by_person_keys(subs)
    IN  [k \in 1..Len(keys) |-> Last(SortedByKey(Group(subs, keys[k])))]

choose_latest_dropped(subs) ==
    Range(subs) \ Range(choose_latest_kept(subs))

-----------------------------------------------------------------------------
(* process_term, block by block *)

SetError(list, role, refs, code) ==
    [i \in 1..Len(list) |->
        IF <<role, i>> \in refs THEN [list[i] EXCEPT !.error = code] ELSE list[i]]

CleanRefs(refs) == SelectSeq(refs, LAMBDA ref : Sub(ref).error = None)

\* variant: the submissions of every term are validated, not only the term's
ValidatedAnyTerm(list) ==
    [i \in 1..Len(list) |-> [list[i] EXCEPT !.error = apply_input_validation(list[i])]]

\* variant: a code that is already set is left alone
ValidatedIfUnset(list) ==
    [i \in 1..Len(list) |->
        IF InTerm(list, i) /\ list[i].error = None
        THEN [list[i] EXCEPT !.error = apply_input_validation(list[i])]
        ELSE list[i]]

\* lines 214-216: sub.error = apply_input_validation(sub) for sub in apps + pars
Validated(list) ==
    [i \in 1..Len(list) |->
        IF InTerm(list, i)
        THEN [list[i] EXCEPT !.error = apply_input_validation(list[i])]
        ELSE list[i]]

Validate ==
    /\ pc = "validate"
    /\ apps' = Validated(apps)
    /\ pars' = Validated(pars)
    /\ run' = run + 1
    /\ pc' = "crosscheck"
    /\ UNCHANGED inputs
    /\ UNCHANGED <<term, ineligible_ids, candidates, kept, paired_partner_ids,
                   valid_rows, results, first>>

\* lines 218-223: a partner form must exist for an applicant requiring one
\* variant: only the partner forms that passed validation count
all_partner_ids_clean ==
    {pars[i].person_id : i \in {j \in 1..Len(pars) :
        InTerm(pars, j) /\ pars[j].error = None}} \ {EMPTY}

all_partner_ids ==
    {pars[i].person_id : i \in {j \in 1..Len(pars) : InTerm(pars, j)}} \ {EMPTY}

CrossCheckFailed ==
    {<<"app", i>> : i \in {j \in 1..Len(apps) :
        /\ InTerm(apps, j)
        /\ apps[j].error = None
        /\ apps[j].has_partner = WITH_PARTNER
        /\ apps[j].partner_id \notin all_partner_ids}}

CrossCheck ==
    /\ pc = "crosscheck"
    /\ apps' = SetError(apps, "app", CrossCheckFailed, "E1")
    /\ pc' = "e2"
    /\ UNCHANGED inputs
    /\ UNCHANGED <<pars, term, ineligible_ids, candidates, kept, paired_partner_ids,
                   valid_rows, results, run, first>>

\* variant: nobody is ineligible
IneligibleNone == {}

\* variant: only applicants are checked against ineligible_ids
IneligibleAppsOnly ==
    {ref \in Range(apps_plus_pars(term)) :
        ref[1] = "app" /\ Sub(ref).error = None /\ Sub(ref).person_id \in ineligible_ids}

\* variant: the code the submission already has is not looked at
IneligibleOverwriting ==
    {ref \in Range(apps_plus_pars(term)) : Sub(ref).person_id \in ineligible_ids}

\* variant: the set is extended while the term is processed, so that an
\* earlier submission of a person meets that person's later one in it
IneligibleWithinTerm ==
    {ref \in Range(apps_plus_pars(term)) :
        /\ Sub(ref).error = None
        /\ \/ Sub(ref).person_id \in ineligible_ids
           \/ \E other \in Range(apps_plus_pars(term)) :
                /\ Sub(other).error = None
                /\ Sub(other).person_id = Sub(ref).person_id
                /\ Sub(other).timestamp > Sub(ref).timestamp}

\* lines 225-228: E2 for persons that already won
Ineligible ==
    {ref \in Range(apps_plus_pars(term)) :
        Sub(ref).error = None /\ Sub(ref).person_id \in ineligible_ids}

ApplyE2 ==
    /\ pc = "e2"
    /\ apps' = SetError(apps, "app", Ineligible, "E2")
    /\ pars' = SetError(pars, "par", Ineligible, "E2")
    /\ pc' = "dedup"
    /\ UNCHANGED inputs
    /\ UNCHANGED <<term, ineligible_ids, candidates, kept, paired_partner_ids,
                   valid_rows, results, run, first>>

\* lines 230-238: Rule A, the latest clean submission of each person is kept
Dedup ==
    /\ pc = "dedup"
    /\ candidates' = CleanRefs(apps_plus_pars(term))
    /\ kept' = choose_latest_kept(candidates')
    /\ apps' = SetError(apps, "app", choose_latest_dropped(candidates'), "E3")
    /\ pars' = SetError(pars, "par", choose_latest_dropped(candidates'), "E3")
    /\ pc' = "missing"
    /\ UNCHANGED inputs
    /\ UNCHANGED <<term, ineligible_ids, paired_partner_ids, valid_rows, results,
                   run, first>>

app_candidates == SelectSeq(kept, LAMBDA ref : ref[1] = "app")
par_candidates == SelectSeq(kept, LAMBDA ref : ref[1] = "par")

\* line 243: partner_by_id = {s.person_id: s for s in par_candidates}
partner_by_id_keys == {Sub(ref).person_id : ref \in Range(par_candidates)}

partner_by_id(person_id) ==
    Last(SelectSeq(par_candidates, LAMBDA ref : Sub(ref).person_id = person_id))

\* lines 245-250: applicants needing a partner must have a partner submission
\* variant: the partner is looked up for applicants without partner too
PartnerMissingAnyApplicant ==
    {ref \in Range(app_candidates) : Sub(ref).partner_id \notin partner_by_id_keys}

PartnerMissing ==
    {ref \in Range(app_candidates) :
        /\ Sub(ref).has_partner = WITH_PARTNER
        /\ Sub(ref).partner_id \notin partner_by_id_keys}

Missing ==
    /\ pc = "missing"
    /\ apps' = SetError(apps, "app", PartnerMissing, "E3")
    /\ pc' = "conflict"
    /\ UNCHANGED inputs
    /\ UNCHANGED <<pars, term, ineligible_ids, candidates, kept, paired_partner_ids,
                   valid_rows, results, run, first>>

\* lines 252-267: several applicants referencing the same partner
apps_for_partner(partner_id) ==
    SelectSeq(app_candidates, LAMBDA ref :
        /\ Sub(ref).error = None
        /\ Sub(ref).has_partner = WITH_PARTNER
        /\ Sub(ref).partner_id = partner_id)

\* variant: the latest applicant keeps the partner
ConflictLosersLatestWins ==
    {ref \in Range(app_candidates) :
        /\ Sub(ref).error = None
        /\ Sub(ref).has_partner = WITH_PARTNER
        /\ Len(apps_for_partner(Sub(ref).partner_id)) > 1
        /\ ref # Last(SortedByKey(apps_for_partner(Sub(ref).partner_id)))}

\* variant: conflicts are not resolved
ConflictLosersNone == {}

ConflictLosers ==
    {ref \in Range(app_candidates) :
        /\ Sub(ref).error = None
        /\ Sub(ref).has_partner = WITH_PARTNER
        /\ Len(apps_for_partner(Sub(ref).partner_id)) > 1
        /\ ref # SortedByKey(apps_for_partner(Sub(ref).partner_id))[1]}

Conflict ==
    /\ pc = "conflict"
    /\ apps' = SetError(apps, "app", ConflictLosers, "E3")
    /\ pc' = "pairs"
    /\ UNCHANGED inputs
    /\ UNCHANGED <<pars, term, ineligible_ids, candidates, kept, paired_partner_ids,
                   valid_rows, results, run, first>>

\* lines 269-299: valid pairs, valid_rows and paired_partner_ids
FloorOr0(floor) == IF floor = NoFloor THEN 0 ELSE floor[1]

PartnerUsable(ref) ==
    /\ Sub(ref).partner_id \in partner_by_id_keys
    /\ Sub(partner_by_id(Sub(ref).partner_id)).error = None

PairFailed ==
    {ref \in Range(app_candidates) :
        /\ Sub(ref).error = None
        /\ Sub(ref).has_partner = WITH_PARTNER
        /\ ~PartnerUsable(ref)}

RowOf(ref) ==
    IF Sub(ref).has_partner = WITH_PARTNER
    THEN <<Sub(ref).person_id, Sub(ref).person_name,
           Sub(partner_by_id(Sub(ref).partner_id)).person_id,
           Sub(partner_by_id(Sub(ref).partner_id)).person_name,
           FloorOr0(Sub(ref).floor)>>
    ELSE <<Sub(ref).person_id, Sub(ref).person_name, EMPTY, "",
           FloorOr0(Sub(ref).floor)>>

RowApplicants ==
    SelectSeq(app_candidates, LAMBDA ref :
        Sub(ref).error = None /\ ref \notin PairFailed)

Pairs ==
    /\ pc = "pairs"
    /\ apps' = SetError(apps, "app", PairFailed, "E3")
    /\ valid_rows' = [k \in 1..Len(RowApplicants) |-> RowOf(RowApplicants[k])]
    /\ paired_partner_ids' =
         {Sub(partner_by_id(Sub(ref).partner_id)).person_id :
            ref \in {r \in Range(RowApplicants) : Sub(r).has_partner = WITH_PARTNER}}
    /\ pc' = "unpaired"
    /\ UNCHANGED inputs
    /\ UNCHANGED <<pars, term, ineligible_ids, candidates, kept, results, run, first>>

\* variant: a partner that nobody was paired with is left as it is
UnpairedNone == {}

\* lines 301-304: partners not paired
Unpaired ==
    {ref \in Range(par_candidates) :
        Sub(ref).error = None /\ Sub(ref).person_id \notin paired_partner_ids}

UnpairedPartners ==
    /\ pc = "unpaired"
    /\ pars' = SetError(pars, "par", Unpaired, "E3")
    /\ pc' = "success"
    /\ UNCHANGED inputs
    /\ UNCHANGED <<apps, term, ineligible_ids, candidates, kept, paired_partner_ids,
                   valid_rows, results, run, first>>

\* lines 306-320: success codes
valid_app_ids == {valid_rows[k][1] : k \in 1..Len(valid_rows)}
valid_par_ids == {valid_rows[k][3] : k \in 1..Len(valid_rows)} \ {EMPTY}

Classified(list, ids) ==
    [i \in 1..Len(list) |->
        IF InTerm(list, i) /\ list[i].error = None
        THEN [list[i] EXCEPT !.error = IF list[i].person_id \in ids THEN "S0" ELSE "E3"]
        ELSE list[i]]

SuccessCodes ==
    /\ pc = "success"
    /\ apps' = Classified(apps, valid_app_ids)
    /\ pars' = Classified(pars, valid_par_ids)
    /\ pc' = "returned"
    /\ UNCHANGED inputs
    /\ UNCHANGED <<term, ineligible_ids, candidates, kept, paired_partner_ids,
                   valid_rows, results, run, first>>

-----------------------------------------------------------------------------
(* main *)

RowIdsApplicantOnly(rows) == {rows[k][1] : k \in 1..Len(rows)}

\* lines 391-394: app_id, and par_id if it is not empty
RowIds(rows) ==
    {rows[k][1] : k \in 1..Len(rows)}
    \cup ({rows[k][3] : k \in 1..Len(rows)} \ {EMPTY})

\* lines 390-401: ineligible_ids is updated, the term's files are written, and
\* the loop goes to the next term
NextTerm ==
    /\ pc = "returned"
    /\ ineligible_ids' = ineligible_ids \cup RowIds(valid_rows)
    /\ results' = Append(results, valid_rows)
    /\ term' = term + 1
    /\ pc' = IF term + 1 > max_term THEN "done" ELSE "validate"
    /\ UNCHANGED inputs
    /\ candidates' = << >>
    /\ kept' = << >>
    /\ paired_partner_ids' = {}
    /\ valid_rows' = << >>
    /\ run' = 0
    /\ first' = << >>
    /\ UNCHANGED <<apps, pars>>

-----------------------------------------------------------------------------
(* The form entries and timestamps the rows of a run are drawn from *)

NameOf(id) ==
    CASE id = ID_A -> "Ann"
      [] id = ID_B -> "Bob"
      [] id = ID_P -> "Pat"
      [] OTHER -> "Zed"

Solo(id, f) ==
    [person_id |-> id, person_name |-> NameOf(id), photo |-> PHOTO_OK,
     consent |-> CONSENT_OK, has_partner |-> WITHOUT_PARTNER,
     partner_id |-> EMPTY, partner_name |-> "", floor |-> <<f>>]

Joint(id, partner, f) ==
    [person_id |-> id, person_name |-> NameOf(id), photo |-> PHOTO_OK,
     consent |-> CONSENT_OK, has_partner |-> WITH_PARTNER,
     partner_id |-> partner, partner_name |-> "friend", floor |-> <<f>>]

Partner(id) ==
    [person_id |-> id, person_name |-> NameOf(id), photo |-> PHOTO_OK,
     consent |-> CONSENT_OK]

AppForms ==
    {Solo(ID_A, 4), Solo(ID_P, 5), Joint(ID_A, ID_P, 2), Joint(ID_B, ID_P, 3)}

ParForms == {Partner(ID_P)}

\* forms that fail validation: floor 2 without partner, photo not accepted
BadAppForms == {Solo(ID_A, 2)}
BadParForms == {[Partner(ID_P) EXCEPT !.photo = "pending"]}

\* two instants of the first week and the first instant of the second week
Timestamps == {T_APRIL_1, T_APRIL_1_1S, T_APRIL_8}

\* a form that fails validation takes no part in any ordering by timestamp:
\* one instant per week is enough for it
AppRows ==
    ({Solo(ID_A, 4), Joint(ID_A, ID_P, 2)} \X Timestamps)
    \cup ({Solo(ID_P, 5)} \X {T_APRIL_1, T_APRIL_8})
    \cup ({Joint(ID_B, ID_P, 3)} \X {T_APRIL_1_1S, T_APRIL_8})
    \cup (BadAppForms \X {T_APRIL_1, T_APRIL_8})
ParRows == (ParForms \X Timestamps) \cup (BadParForms \X {T_APRIL_1, T_APRIL_8})

RECURSIVE SeqsUpTo(_, _)
\* the lists of at most n elements of S
SeqsUpTo(S, n) ==
    IF n = 0 THEN {<< >>}
    ELSE LET shorter == SeqsUpTo(S, n - 1)
         IN  shorter \cup {Append(q, x) : q \in shorter, x \in S}

\* one applicant form with every combination of field values
FieldForms ==
    [person_id : {EMPTY, ID_A, ID_SIX}, person_name : {"", "Ann"},
     photo : {PHOTO_OK, "pending"}, consent : {CONSENT_OK, ""},
     has_partner : {WITH_PARTNER, WITHOUT_PARTNER, ""},
     partner_id : {EMPTY, ID_P, ID_SIX}, partner_name : {"", "friend"},
     floor : {NoFloor, <<2>>, <<3>>, <<4>>, <<5>>, <<6>>}]

\* the applicant file of one such form, alone or before a valid joint application
FieldFiles ==
    {<<<<form, T_APRIL_1>>>> : form \in FieldForms}
    \cup {<<<<form, T_APRIL_1>>, <<Joint(ID_B, ID_P, 3), T_APRIL_1_1S>>>> :
            form \in FieldForms}

\* "タイムスタンプ", "メールアドレス", "規約への同意", "申請者の学籍番号",
\* "申請者の氏名", "申請者の学生証写真", "共同利用者の有無", "共同利用者の学籍番号",
\* "共同利用者の氏名", "階数希望選択（共同利用者なし）", "階数希望選択（共同利用者あり）"
APP_COLUMNS ==
    {"timestamp", "email", "consent", "applicant_id", "applicant_name",
     "applicant_photo", "has_partner", "partner_id", "partner_name",
     "floor_without_partner", "floor_with_partner"}

\* "タイムスタンプ", "メールアドレス", "規約への同意", "共同利用者の学籍番号",
\* "共同利用者の氏名", "共同利用者の学生証写真"
PAR_COLUMNS ==
    {"timestamp", "email", "consent", "partner_id", "partner_name", "partner_photo"}

\* the two files: the header of each and its rows <<form, timestamp>>
File(app_columns, par_columns, app_rows, par_rows) ==
    [app_columns |-> app_columns, par_columns |-> par_columns,
     app_rows |-> app_rows, par_rows |-> par_rows]

Complete(rows) == File(APP_COLUMNS, PAR_COLUMNS, rows[1], rows[2])

\* files with every column and well-formed timestamps (or no row at all)
RowFiles ==
    {Complete(rows) :
        rows \in (SeqsUpTo(AppRows, MaxApps) \X SeqsUpTo(ParRows, MaxPars))
                 \cup (FieldFiles \X SeqsUpTo((ParForms \cup BadParForms) \X {T_APRIL_1}, 1))}

\* a partner that submits an invalid form and then a valid one
SecondTryFiles ==
    {Complete(<<<<<<Joint(ID_A, ID_P, 2), T_APRIL_1>>>>,
               <<<<bad, T_APRIL_1>>, <<Partner(ID_P), T_APRIL_1_1S>>>>>>) :
        bad \in BadParForms \cup ParForms}

\* an applicant that names itself as partner, with its own partner form
SelfFiles ==
    {Complete(<<<<<<Joint(ID_A, ID_A, 2), ts[1]>>>>, <<<<Partner(ID_A), ts[2]>>>>>>) :
        ts \in {T_APRIL_1, T_APRIL_1_1S} \X {T_APRIL_1, T_APRIL_1_1S}}

\* rows on both sides of the boundaries between weeks, and of the boundary
\* between academic years
BoundaryFiles ==
    {Complete(<<<<<<Solo(ID_A, 4), ts[1]>>>>, <<<<Partner(ID_P), ts[2]>>>>>>) :
        ts \in ((({T_MARCH_31, T_APRIL_1} \cup BoundaryTimestamps) \X BoundaryTimestamps)
                \cup (BoundaryTimestamps \X {T_APRIL_1}))}

\* a few rows for the files that main refuses
SomeRows ==
    {<< >>, <<<<Solo(ID_A, 4), T_APRIL_1>>>>,
     <<<<Solo(ID_A, 4), T_APRIL_1>>, <<Solo(ID_P, 5), T_APRIL_8>>>>}

SomeParRows == {<< >>, <<<<Partner(ID_P), T_APRIL_1>>>>}

\* files with a column missing from one header or from both
HeaderFiles ==
    {File(app_columns, par_columns, app_rows, par_rows) :
        app_columns \in {APP_COLUMNS, APP_COLUMNS \ {"timestamp"},
                         APP_COLUMNS \ {"floor_with_partner"}},
        par_columns \in {PAR_COLUMNS, PAR_COLUMNS \ {"partner_photo"}, {}},
        app_rows \in SomeRows, par_rows \in SomeParRows}
    \ {Complete(rows) : rows \in SomeRows \X SomeParRows}

\* files with a timestamp that is not of the format, first or last, in either file
TimestampFiles ==
    {Complete(<<app_rows, par_rows>>) :
        app_rows \in SomeRows \cup {<<<<Solo(ID_A, 4), bad>>>> : bad \in BadTimestamps}
                     \cup {<<<<Solo(ID_A, 4), T_APRIL_1>>, <<Solo(ID_P, 5), bad>>>> :
                              bad \in BadTimestamps},
        par_rows \in SomeParRows \cup {<<<<Partner(ID_P), bad>>>> : bad \in BadTimestamps}}

\* the locals of main that held the files, once they are dead
Consumed == File({}, {}, << >>, << >>)

InputFiles ==
    RowFiles \cup SecondTryFiles \cup SelfFiles \cup BoundaryFiles
    \cup HeaderFiles \cup TimestampFiles

AllRows == files.app_rows \o files.par_rows

ColumnsPresentApplicantOnly ==
    \A col \in APP_COLUMNS : col \in files.app_columns

\* lines 361-367: the basic header check
ColumnsPresent ==
    /\ \A col \in APP_COLUMNS : col \in files.app_columns
    /\ \A col \in PAR_COLUMNS : col \in files.par_columns

\* line 369: every timestamp is parsed
TimestampsParse == \A i \in 1..Len(AllRows) : Parses(AllRows[i][2])

\* all_ts of line 369
all_ts == {parse_timestamp(AllRows[i][2]) : i \in 1..Len(AllRows)}

\* lines 354-380: the rows are read, the anchor is computed from the earliest
\* timestamp and the submissions are built
Build ==
    /\ pc = "main"
    /\ ColumnsPresent
    /\ TimestampsParse
    /\ all_ts # {}
    /\ LET start == term_start_from_timestamp(Min(all_ts))
       IN  /\ apps' = build_apps(files.app_rows, start)
           /\ pars' = build_pars(files.par_rows, start)
    /\ files' = Consumed
    /\ pc' = "validate"
    /\ UNCHANGED <<term, ineligible_ids, candidates, kept, paired_partner_ids,
                   valid_rows, results, run, first, id_chars, id_match>>

\* lines 361-367: raise SystemExit("Missing column in ... CSV")
MissingColumn ==
    /\ pc = "main"
    /\ ~ColumnsPresent
    /\ pc' = "aborted"
    /\ UNCHANGED inputs
    /\ UNCHANGED <<apps, pars, term, ineligible_ids, candidates, kept,
                   paired_partner_ids, valid_rows, results, run, first>>

\* line 369: parse_timestamp raises ValueError, which nothing catches
BadTimestamp ==
    /\ pc = "main"
    /\ ColumnsPresent
    /\ ~TimestampsParse
    /\ pc' = "aborted"
    /\ UNCHANGED inputs
    /\ UNCHANGED <<apps, pars, term, ineligible_ids, candidates, kept,
                   paired_partner_ids, valid_rows, results, run, first>>

\* lines 369-371: no data rows
NoRows ==
    /\ pc = "main"
    /\ ColumnsPresent
    /\ AllRows = << >>
    /\ pc' = "aborted"
    /\ UNCHANGED inputs
    /\ UNCHANGED <<apps, pars, term, ineligible_ids, candidates, kept,
                   paired_partner_ids, valid_rows, results, run, first>>

\* process_term is called a second time with the arguments of the call that
\* has just returned (the same Submission objects, the same ineligible_ids).
\* The call repeated is the one for the last term of the run: a call for an
\* earlier term reads nothing of the later rows, so it is repeated in the run
\* without them.
Rerun ==
    /\ pc = "returned"
    /\ run = 1
    /\ term = max_term
    /\ first' = <<apps, pars, valid_rows>>
    /\ candidates' = << >>
    /\ kept' = << >>
    /\ paired_partner_ids' = {}
    /\ valid_rows' = << >>
    /\ pc' = "validate"
    /\ UNCHANGED inputs
    /\ UNCHANGED <<apps, pars, term, ineligible_ids, results, run>>

Init ==
    /\ apps = << >>
    /\ pars = << >>
    /\ pc = "main"
    /\ term = 0
    /\ ineligible_ids = {}
    /\ candidates = << >>
    /\ kept = << >>
    /\ paired_partner_ids = {}
    /\ valid_rows = << >>
    /\ results = << >>
    /\ run = 0
    /\ first = << >>
    /\ files \in InputFiles
    /\ id_chars = << >>
    /\ id_match = FALSE

Next ==
    \/ Build
    \/ MissingColumn
    \/ BadTimestamp
    \/ NoRows
    \/ Validate
    \/ CrossCheck
    \/ ApplyE2
    \/ Dedup
    \/ Missing
    \/ Conflict
    \/ Pairs
    \/ UnpairedPartners
    \/ SuccessCodes
    \/ NextTerm

Spec == Init /\ [][Next]_vars

-----------------------------------------------------------------------------
(* is_valid_student_id on its own, and in the validation of one form.       *)

MaxIdTail == 6

IdHeads == {<<a, b>> : a \in {1, 4, 5, 8, CH_FULLWIDTH_1}, b \in {0, 1, 5, 6, 7}}

\* what follows the first two characters: three to MaxIdTail digits, five
\* characters one of which is no ASCII digit, and five digits with something
\* after them
IdTails ==
    {t \in SeqsUpTo({0, 9}, MaxIdTail) : Len(t) >= 3}
    \cup {[<<0, 0, 0, 0, 1>> EXCEPT ![i] = c] :
            i \in 1..5, c \in {CH_FULLWIDTH_1, CH_LETTER, CH_NEWLINE}}
    \cup {<<0, 0, 0, 0, 1>> \o rest :
            rest \in {<<CH_NEWLINE>>, <<CH_NEWLINE, CH_NEWLINE>>, <<CH_LETTER>>,
                      <<CH_LETTER, CH_NEWLINE>>}}

IdStrings ==
    {h \o t : h \in IdHeads, t \in IdTails} \cup {<< >>, <<1>>, <<1, 5>>, <<CH_NEWLINE>>}

\* the files of one form with every combination of field values, and the
\* files that main refuses
IdFiles ==
    {Complete(rows) :
        rows \in FieldFiles \X SeqsUpTo((ParForms \cup BadParForms) \X {T_APRIL_1}, 1)}
    \cup HeaderFiles \cup TimestampFiles

\* lines 79-80: bool(STUDENT_ID_RE.match(value))
CheckId ==
    /\ pc = "id"
    /\ id_match' = STUDENT_ID_RE(id_chars)
    /\ pc' = "id_checked"
    /\ UNCHANGED <<apps, pars, term, ineligible_ids, candidates, kept,
                   paired_partner_ids, valid_rows, results, run, first,
                   files, id_chars>>

InitId ==
    /\ apps = << >>
    /\ pars = << >>
    /\ term = 0
    /\ ineligible_ids = {}
    /\ candidates = << >>
    /\ kept = << >>
    /\ paired_partner_ids = {}
    /\ valid_rows = << >>
    /\ results = << >>
    /\ run = 0
    /\ first = << >>
    /\ id_match = FALSE
    /\ \/ pc = "id" /\ id_chars \in IdStrings /\ files = Consumed
       \/ pc = "main" /\ id_chars = << >> /\ files \in IdFiles

NextId == CheckId \/ Next

SpecId == InitId /\ [][NextId]_vars

NextRerun == Next \/ Rerun

SpecRerun == Init /\ [][NextRerun]_vars

-----------------------------------------------------------------------------
(* Vocabulary of the properties *)

Codes == {"E1", "E2", "E3", "S0"}

AppIdx == 1..Len(apps)
ParIdx == 1..Len(pars)

\* the submissions handed to the current process_term call
TermRefs == Range(apps_plus_pars(term))
TermAppRefs == {ref \in TermRefs : ref[1] = "app"}
TermParRefs == {ref \in TermRefs : ref[1] = "par"}

Returned == pc = "returned"

\* the submissions whose term has been processed
Finished(sub) == sub.term < term \/ (sub.term = term /\ Returned)

\* the allocation rows of every term processed so far, current term included
RowLists == Range(results) \cup {valid_rows}

\* persons in an allocation row of a term before the current one
PriorWinners == UNION {RowIds(results[t]) : t \in 1..Len(results)}

KeptRefs == Range(kept)
KeptApps == {ref \in KeptRefs : ref[1] = "app"}
KeptPars == {ref \in KeptRefs : ref[1] = "par"}

RowsWith(rows, id) == {k \in 1..Len(rows) : rows[k][1] = id \/ rows[k][3] = id}

-----------------------------------------------------------------------------
\* C1: when process_term returns, every submission of the term carries one of
\* the codes E1, E2, E3, S0, and a submission that has S0 keeps S0 in every
\* later step of the run.
C1_OneOutcome ==
    /\ [](Returned => \A ref \in TermRefs : Sub(ref).error \in Codes)
    /\ [][/\ \A i \in AppIdx : apps[i].error = "S0" => apps'[i].error = "S0"
          /\ \A i \in ParIdx : pars[i].error = "S0" => pars'[i].error = "S0"]_vars

\* a second term has returned with an E2 while a winner of term 0 still has S0
C1_Witness ==
    /\ Returned
    /\ term = 1
    /\ \E ref \in TermRefs : Sub(ref).error = "E2"
    /\ \E i \in AppIdx : apps[i].term = 0 /\ apps[i].error = "S0"
    /\ \E i \in ParIdx : pars[i].term = 0 /\ pars[i].error = "S0"

\* C2: no person of an allocation row of one term is in an allocation row of a
\* later term, as applicant or as partner.
C2_NoSecondWin ==
    \A t, u \in 1..Len(results) :
        t < u => RowIds(results[t]) \cap RowIds(results[u]) = {}

\* a person that won term 0 as partner applied validly in term 1
C2_Witness ==
    /\ Len(results) = 2
    /\ \E i \in AppIdx :
        /\ apps[i].term = 1
        /\ apply_input_validation(apps[i]) = None
        /\ apps[i].person_id \in {results[1][k][3] : k \in 1..Len(results[1])}
    /\ \E i \in AppIdx :
        /\ apps[i].term = 0
        /\ apps[i].error = "S0"

\* C3 as stated: every submission, in a later term, of a person that is in an
\* allocation row of an earlier term ends with E2.
C3_AlwaysE2 ==
    Returned =>
        \A ref \in TermRefs :
            Sub(ref).person_id \in PriorWinners => Sub(ref).error = "E2"

\* an applicant requiring a partner none of whose partner forms is in the term
NoPartnerForm(sub) ==
    /\ sub.role = "app"
    /\ sub.has_partner = WITH_PARTNER
    /\ sub.partner_id \notin all_partner_ids

PassesValidation(sub) ==
    apply_input_validation(sub) = None /\ ~NoPartnerForm(sub)

\* C3 amended: such a submission ends with E2 when it passes validation (the
\* partner-existence cross-check included) and with E1 when it does not; it
\* never ends with E3 or S0.
C3_E2UnlessInvalid ==
    Returned =>
        \A ref \in TermRefs :
            Sub(ref).person_id \in PriorWinners =>
                Sub(ref).error = IF PassesValidation(Sub(ref)) THEN "E2" ELSE "E1"

\* an earlier winner resubmits validly (E2) and invalidly (E1), in both roles
C3_Witness ==
    /\ Returned
    /\ \E ref \in TermRefs :
        Sub(ref).person_id \in PriorWinners /\ Sub(ref).error = "E2"
    /\ \E ref \in TermRefs :
        Sub(ref).person_id \in PriorWinners /\ Sub(ref).error = "E1"
    /\ \E ref \in TermParRefs : Sub(ref).person_id \in PriorWinners

\* C4: after deduplication, of the clean submissions of one person (both roles
\* together) exactly one is kept, it is greatest under (timestamp, row_index),
\* and every other one has E3.
C4_LatestKept ==
    pc = "missing" =>
        \A ref \in Range(candidates) :
            LET group == {r \in Range(candidates) :
                            Sub(r).person_id = Sub(ref).person_id}
                survivors == {r \in KeptRefs : Sub(r).person_id = Sub(ref).person_id}
            IN  /\ Cardinality(survivors) = 1
                /\ survivors \subseteq group
                /\ \A k \in survivors :
                    /\ Sub(k).error = None
                    /\ \A r \in group : ~KeyLess(Sub(k), Sub(r))
                /\ \A r \in group \ survivors : Sub(r).error = "E3"

\* two clean submissions of one person with equal timestamps: the one with the
\* higher row_index is kept although it is not the one listed last
C4_Witness ==
    /\ pc = "missing"
    /\ \E k \in KeptRefs, r \in Range(candidates) :
        /\ Sub(k).person_id = Sub(r).person_id
        /\ Sub(k).timestamp = Sub(r).timestamp
        /\ Sub(k).row_index > Sub(r).row_index
        /\ k[1] = "app" /\ r[1] = "par"
        /\ Sub(r).error = "E3"

\* the applicants of the term that name partner_id as their partner
Referencing(partner_id) ==
    {ref \in TermAppRefs :
        Sub(ref).has_partner = WITH_PARTNER /\ Sub(ref).partner_id = partner_id}

\* the members of refs that no other member precedes under (timestamp, row_index)
Earliest(refs) == {w \in refs : \A r \in refs : ~KeyLess(Sub(r), Sub(w))}

\* ref is paired with the partner submission par: both S0, one row naming both
PairedWith(ref, par) ==
    /\ Sub(ref).error = "S0"
    /\ Sub(par).error = "S0"
    /\ \E k \in 1..Len(valid_rows) :
        /\ valid_rows[k] = <<Sub(ref).person_id, Sub(ref).person_name,
                             Sub(par).person_id, Sub(par).person_name,
                             Sub(ref).floor[1]>>
        /\ RowsWith(valid_rows, Sub(par).person_id) = {k}

\* C5 as stated: when applicants of the term, two persons or more, reference
\* partner P and a partner submission of P is valid, the earliest of them is
\* paired with P and every other one has E3.
C5_EarliestOfAll ==
    Returned =>
        \A par \in TermParRefs :
            LET claimants == Referencing(Sub(par).person_id)
            IN  (/\ apply_input_validation(Sub(par)) = None
                 /\ Cardinality({Sub(r).person_id : r \in claimants}) >= 2)
                => \A w \in Earliest(claimants) :
                     /\ PairedWith(w, par)
                     /\ \A r \in claimants \ {w} : Sub(r).error = "E3"

\* C5 amended: when two or more applicants that are still clean after
\* validation, the ineligibility check and deduplication reference partner P
\* and a partner submission of P is still clean after those stages too, the
\* earliest of these applicants is paired with P and every other one of them
\* has E3.
C5_EarliestOfKept ==
    Returned =>
        \A par \in KeptPars :
            LET claimants == Referencing(Sub(par).person_id) \cap KeptApps
            IN  Cardinality(claimants) >= 2
                => \A w \in Earliest(claimants) :
                     /\ PairedWith(w, par)
                     /\ \A r \in claimants \ {w} : Sub(r).error = "E3"

\* two kept applicants reference one kept partner; the one with the earlier
\* timestamp, listed second, is paired and the other has E3
C5_Witness ==
    /\ Returned
    /\ \E par \in KeptPars, w, r \in KeptApps :
        /\ {w, r} \subseteq Referencing(Sub(par).person_id)
        /\ Sub(w).timestamp < Sub(r).timestamp
        /\ Sub(w).row_index > Sub(r).row_index
        /\ PairedWith(w, par)
        /\ Sub(r).error = "E3"

\* the person ids of the rows, position by position (empty partner ids left out)
RowIdList(rows) ==
    [k \in 1..Len(rows) |-> rows[k][1]]
    \o SelectSeq([k \in 1..Len(rows) |-> rows[k][3]], LAMBDA id : id # EMPTY)

\* C6: in the allocation rows of one term every person id occurs at most once
\* over the applicant and partner positions together.
C6_OncePerTerm ==
    \A rows \in RowLists :
        \A k, l \in 1..Len(RowIdList(rows)) :
            RowIdList(rows)[k] = RowIdList(rows)[l] => k = l

\* two applicants referenced the same kept partner, and the term has a row
\* with that partner next to a row of another applicant
C6_Witness ==
    /\ Returned
    /\ \E k \in 1..Len(valid_rows) :
        /\ valid_rows[k][3] # EMPTY
        /\ Cardinality(Referencing(valid_rows[k][3])) >= 2
    /\ \E par \in TermParRefs : Sub(par).error = "S0"

\* C7: a second process_term call on the same submissions (as annotated by the
\* first call) and the same ineligible_ids returns the same codes and rows.
C7_Idempotent ==
    (Returned /\ run = 2) => first = <<apps, pars, valid_rows>>

\* the second call has returned rows and codes S0, E1, E2 or E3 again
C7_Witness ==
    /\ Returned
    /\ run = 2
    /\ valid_rows # << >>
    /\ \E ref \in TermRefs : Sub(ref).error = "S0"
    /\ \E ref \in TermRefs : Sub(ref).error = "E3"

\* C8: an applicant with floor 2 or 3 and a partnership choice other than
\* "with partner" ends with E1; every allocation row has a floor in 2..6, and
\* a row with floor 2 or 3 has a partner id.
C8_PartnerOnlyFloors ==
    /\ \A i \in AppIdx :
        (/\ Finished(apps[i])
         /\ apps[i].floor \in {<<2>>, <<3>>}
         /\ apps[i].has_partner # WITH_PARTNER) => apps[i].error = "E1"
    /\ \A rows \in RowLists :
        \A k \in 1..Len(rows) :
            /\ rows[k][5] \in 2..6
            /\ rows[k][5] \in {2, 3} => rows[k][3] # EMPTY

\* a solo applicant for floor 2 has E1 next to a row for floor 3 with a partner
C8_Witness ==
    /\ Returned
    /\ \E i \in AppIdx :
        /\ InTerm(apps, i)
        /\ apps[i].floor = <<2>>
        /\ apps[i].has_partner = WITHOUT_PARTNER
        /\ apps[i].error = "E1"
    /\ \E k \in 1..Len(valid_rows) : valid_rows[k][5] = 3 /\ valid_rows[k][3] # EMPTY

\* a valid solo application for floor 4..6 that is the person's only submission
\* of the term, the person not being ineligible
SoloCase(ref) ==
    /\ ref[1] = "app"
    /\ Sub(ref).has_partner = WITHOUT_PARTNER
    /\ is_valid_student_id(Sub(ref).person_id)
    /\ Sub(ref).person_name # ""
    /\ Sub(ref).consent = CONSENT_OK
    /\ Sub(ref).photo = PHOTO_OK
    /\ Sub(ref).partner_id = EMPTY
    /\ Sub(ref).partner_name = ""
    /\ Sub(ref).floor \in {<<4>>, <<5>>, <<6>>}
    /\ Sub(ref).person_id \notin ineligible_ids
    /\ \A r \in TermRefs \ {ref} : Sub(r).person_id # Sub(ref).person_id

\* C9: such an applicant ends with S0 and with exactly one allocation row,
\* (id, name, "", "", floor).
C9_SoloSucceeds ==
    Returned =>
        \A ref \in TermRefs :
            SoloCase(ref) =>
                /\ Sub(ref).error = "S0"
                /\ \E k \in 1..Len(valid_rows) :
                    /\ valid_rows[k] = <<Sub(ref).person_id, Sub(ref).person_name,
                                         EMPTY, "", Sub(ref).floor[1]>>
                    /\ RowsWith(valid_rows, Sub(ref).person_id) = {k}

\* a solo applicant succeeds in a term in which a pair is accepted as well
C9_Witness ==
    /\ Returned
    /\ \E ref \in TermRefs : SoloCase(ref) /\ Sub(ref).error = "S0"
    /\ \E k \in 1..Len(valid_rows) : valid_rows[k][3] # EMPTY

\* par is claimed: an accepted applicant of the term names it as partner
Claimed(par) ==
    \E ref \in Referencing(Sub(par).person_id) : Sub(ref).error = "S0"

\* C10: a partner submission that is kept by deduplication and is not claimed
\* by an accepted applicant of the term ends with E3, and its person is in no
\* allocation row of the term.
C10_UnclaimedPartner ==
    Returned =>
        \A par \in KeptPars :
            ~Claimed(par) =>
                /\ Sub(par).error = "E3"
                /\ RowsWith(valid_rows, Sub(par).person_id) = {}

\* a kept partner whose only applicant was rejected ends with E3 while another
\* applicant of the term is accepted
C10_Witness ==
    /\ Returned
    /\ valid_rows # << >>
    /\ \E par \in KeptPars :
        /\ ~Claimed(par)
        /\ Referencing(Sub(par).person_id) # {}
        /\ Sub(par).error = "E3"

-----------------------------------------------------------------------------
(* Fatal input.                                                             *)

\* a required column is missing from the header of either file
ColumnMissing ==
    APP_COLUMNS \ files.app_columns # {} \/ PAR_COLUMNS \ files.par_columns # {}

\* some row of either file carries a timestamp that is not of the format
TimestampUnparseable ==
    \/ \E i \in 1..Len(files.app_rows) : files.app_rows[i][2] \in BadTimestamps
    \/ \E i \in 1..Len(files.par_rows) : files.par_rows[i][2] \in BadTimestamps

\* neither file has a data row
NoDataRows == files.app_rows = << >> /\ files.par_rows = << >>

FatalInput == ColumnMissing \/ TimestampUnparseable \/ NoDataRows

\* nothing of any term exists: process_term was never entered, no Submission
\* was built, no allocation row was made and no output was written
NothingProcessed ==
    /\ run = 0
    /\ term = 0
    /\ apps = << >>
    /\ pars = << >>
    /\ candidates = << >>
    /\ kept = << >>
    /\ valid_rows = << >>
    /\ results = << >>
    /\ ineligible_ids = {}

\* C11: with a required column missing from either file, a timestamp of either
\* file that does not parse, or no data row at all, the only step main takes
\* is the abort, and the aborted run has entered process_term for no term and
\* written no output.
C11_FatalAborts ==
    [][/\ (pc = "main" /\ FatalInput) => pc' = "aborted"
       /\ pc' = "aborted" => NothingProcessed']_vars

\* the run was aborted for a timestamp of the partner file, the applicant file
\* being well formed and not empty
C11_Witness ==
    /\ pc = "aborted"
    /\ NothingProcessed
    /\ ~ColumnMissing
    /\ files.app_rows # << >>
    /\ \A i \in 1..Len(files.app_rows) : files.app_rows[i][2] \notin BadTimestamps
    /\ \E i \in 1..Len(files.par_rows) : files.par_rows[i][2] \in BadTimestamps

-----------------------------------------------------------------------------
(* The format of a student id.                                              *)

\* seven characters: 15 and five decimal digits, or 4 or 8, a digit from 1
\* to 6 and five decimal digits
SevenDigitCode(chars) ==
    /\ Len(chars) = 7
    /\ <<chars[1], chars[2]>> \in {<<1, 5>>} \cup ({4, 8} \X (1..6))
    /\ \A i \in 3..7 : chars[i] \in UnicodeDigit

\* six digits: 15 and four digits, or one of 4, 5, 6, 1, a digit from 1 to 6
\* and four digits
SixDigitCode(chars) ==
    /\ Len(chars) = 6
    /\ \A i \in 1..6 : chars[i] \in Digit
    /\ \/ chars[1] = 1 /\ chars[2] = 5
       \/ chars[1] \in {4, 5, 6, 1} /\ chars[2] \in 1..6

\* the string with one final line feed taken off, if it has one
Chomp(chars) ==
    IF chars # << >> /\ chars[Len(chars)] = CH_NEWLINE
    THEN SubSeq(chars, 1, Len(chars) - 1)
    ELSE chars

\* every submission of the run
AllRefs == {<<"app", i>> : i \in AppIdx} \cup {<<"par", i>> : i \in ParIdx}

\* the ids that validation looks at in a submission
CheckedIds(sub) ==
    {sub.person_id}
    \cup (IF sub.role = "app" /\ sub.has_partner = WITH_PARTNER
          THEN {sub.partner_id} ELSE {})

-----------------------------------------------------------------------------
(* The ineligibility set.                                                   *)

\* the person ids in the allocation rows of the terms processed so far
RowPersons ==
    {id \in {ID_A, ID_B, ID_P, ID_SIX} :
        \E t \in 1..Len(results) : \E k \in 1..Len(results[t]) :
            results[t][k][1] = id \/ results[t][k][3] = id}

\* C13: the ineligibility set is empty when the run starts, and after every
\* step it contains what it contained before and is exactly the set of the
\* person ids, applicant or partner, in the allocation rows of the terms
\* processed so far.
C13_IneligibleIsRowPersons ==
    /\ ineligible_ids = {}
    /\ [][/\ ineligible_ids \subseteq ineligible_ids'
          /\ ineligible_ids' = RowPersons']_vars

\* between two terms, after the set has grown twice, once by a pair
C13_Witness ==
    /\ pc \in {"validate", "done"}
    /\ run = 0
    /\ Len(results) = 2
    /\ results[1] # << >>
    /\ results[2] # << >>
    /\ \E k \in 1..Len(results[1]) : results[1][k][3] # EMPTY
    /\ Cardinality(ineligible_ids) = 3

-----------------------------------------------------------------------------
(* The ineligibility set during a term.                                     *)

\* the control points inside process_term
InProcessTerm ==
    pc \in {"validate", "crosscheck", "e2", "dedup", "missing", "conflict",
            "pairs", "unpaired", "success"}

\* the persons in an allocation row of the current term
AcceptedNow == {id \in {ID_A, ID_B, ID_P, ID_SIX} : RowsWith(valid_rows, id) # {}}

\* C14: no step of process_term changes the ineligibility set, and when
\* process_term returns, no submission of the term by a person accepted in
\* this term has E2.
C14_SetFixedInTerm ==
    [][/\ InProcessTerm => ineligible_ids' = ineligible_ids
       /\ Returned' =>
            \A ref \in TermRefs' :
                Sub(ref)'.person_id \in AcceptedNow' => Sub(ref)'.error # "E2"]_vars

\* a term, not the first, in which one submission gets E2 and another is accepted
C14_Witness ==
    /\ Returned
    /\ valid_rows # << >>
    /\ ineligible_ids # {}
    /\ \E ref \in TermRefs : Sub(ref).error = "E2"
    /\ \E ref \in TermRefs : Sub(ref).error = "S0"

-----------------------------------------------------------------------------
(* The partner-existence cross-check.                                       *)

\* the applicants of the term that pass every per-submission check and
\* require a partner
JointApplicants ==
    {ref \in TermAppRefs :
        /\ apply_input_validation(Sub(ref)) = None
        /\ Sub(ref).has_partner = WITH_PARTNER}

\* the partner-role submissions of the term made by the applicant's partner
PartnerForms(ref) ==
    {par \in TermParRefs : Sub(par).person_id = Sub(ref).partner_id}

\* rejected by validation (E1), by the ineligibility check (E2) or superseded
\* in deduplication: not among the kept submissions
RejectedEarly(par) ==
    \/ Sub(par).error \in {"E1", "E2"}
    \/ Sub(par).error = "E3" /\ par \notin KeptRefs

\* C15 as stated: such an applicant has E1 exactly when the partner made no
\* partner-role submission in the term, and has E3 (E2 if ineligible) when
\* some partner-role submission of the partner exists and is rejected.
C15_SomeRejected ==
    Returned =>
        \A ref \in JointApplicants :
            /\ Sub(ref).error = "E1" <=> PartnerForms(ref) = {}
            /\ (\E par \in PartnerForms(ref) : RejectedEarly(par)) =>
                Sub(ref).error =
                    IF Sub(ref).person_id \in ineligible_ids THEN "E2" ELSE "E3"

\* C15 amended: such an applicant has E1 exactly when the partner made no
\* partner-role submission in the term, and has E3 (E2 if ineligible) when
\* the partner made such submissions and every one of them is rejected.
C15_AllRejected ==
    Returned =>
        \A ref \in JointApplicants :
            /\ Sub(ref).error = "E1" <=> PartnerForms(ref) = {}
            /\ (/\ PartnerForms(ref) # {}
                /\ \A par \in PartnerForms(ref) : RejectedEarly(par)) =>
                Sub(ref).error =
                    IF Sub(ref).person_id \in ineligible_ids THEN "E2" ELSE "E3"

\* the partner's only form failed validation and the applicant ended with E3
C15_Witness ==
    /\ Returned
    /\ \E ref \in JointApplicants :
        /\ PartnerForms(ref) # {}
        /\ \A par \in PartnerForms(ref) : Sub(par).error = "E1"
        /\ Sub(ref).error = "E3"

-----------------------------------------------------------------------------
(* The precedence of the codes.                                             *)

\* no submission loses or changes a code it has
CodesKept ==
    /\ \A i \in AppIdx : apps[i].error # None => apps'[i].error = apps[i].error
    /\ \A i \in ParIdx : pars[i].error # None => pars'[i].error = pars[i].error

\* at the return of process_term: E1 for what fails validation, whoever
\* submitted it, and E2 for everything else an ineligible person submitted
ValidationFirst ==
    Returned =>
        \A ref \in TermRefs :
            /\ ~PassesValidation(Sub(ref)) => Sub(ref).error = "E1"
            /\ (PassesValidation(Sub(ref)) /\ Sub(ref).person_id \in ineligible_ids)
                    => Sub(ref).error = "E2"

\* deduplication sees no submission of an ineligible person: none survives
\* it and none has E3
DedupAfterE2 ==
    /\ \A ref \in KeptRefs : Sub(ref).person_id \notin ineligible_ids
    /\ \A ref \in TermRefs :
        Sub(ref).error = "E3" => Sub(ref).person_id \notin ineligible_ids

\* C16: a code once assigned is never replaced; a submission that fails
\* validation ends with E1 even when its person is ineligible; a submission
\* of an ineligible person that passes validation ends with E2; and
\* deduplication neither keeps nor gives E3 to a submission of an ineligible
\* person.
C16_Precedence ==
    [][CodesKept /\ ValidationFirst' /\ DedupAfterE2']_vars

\* an ineligible person's invalid form has E1 while the term has an E3 as well
C16_Witness ==
    /\ Returned
    /\ \E ref \in TermRefs :
        /\ Sub(ref).person_id \in ineligible_ids
        /\ apply_input_validation(Sub(ref)) = "E1"
        /\ Sub(ref).error = "E1"
    /\ \E ref \in TermRefs : Sub(ref).error = "E3"

-----------------------------------------------------------------------------
(* The loop over the terms.                                                 *)

\* a step changes a submission only while process_term runs for its term
OnlyInOwnTerm ==
    /\ \A i \in AppIdx : apps'[i] # apps[i] => (apps[i].term = term /\ InProcessTerm)
    /\ \A i \in ParIdx : pars'[i] # pars[i] => (pars[i].term = term /\ InProcessTerm)

\* one list of rows has been written for each of the terms 0 .. term - 1, and
\* process_term has been entered at most once for the current term
OncePerTerm == Len(results) = term /\ run <= 1

\* at the end every term from 0 to max_term has been processed and every
\* submission has its code
AllTermsDone ==
    pc = "done" =>
        /\ term = max_term + 1
        /\ \A ref \in AllRefs : Sub(ref).error \in Codes

\* C17: the term only ever goes up by one, when process_term has returned;
\* process_term is entered once for each term from 0 to max_term; and a
\* submission is touched only by the call for its own term, after which it
\* has its code.
C17_TermsInOrder ==
    [][/\ term' = term \/ (term' = term + 1 /\ Returned)
       /\ OnlyInOwnTerm
       /\ OncePerTerm'
       /\ AllTermsDone']_vars

\* a finished run of at least three terms, one of them without any row,
\* with submissions in two different terms
C17_Witness ==
    /\ pc = "done"
    /\ Len(results) >= 3
    /\ \E t \in 1..Len(results) : results[t] = << >>
    /\ \E t \in 1..Len(results) : results[t] # << >>
    /\ \E r1, r2 \in AllRefs : Sub(r1).term # Sub(r2).term

-----------------------------------------------------------------------------
(* The term of a submission.                                                *)

\* the timestamps of all submissions, of both roles
AllTimestamps ==
    {apps[i].timestamp : i \in AppIdx} \cup {pars[i].timestamp : i \in ParIdx}

\* the 1 April 00:00:00 that is not after the earliest timestamp and less than
\* a year before it
Anchor ==
    LET all == AllTimestamps
        earliest == CHOOSE ts \in all : \A other \in all : ts <= other
    IN  CHOOSE a \in {0 - YEAR, 0, YEAR} : a <= earliest /\ earliest < a + YEAR

\* C18: the term of every submission is not negative and is the whole number
\* of weeks (604800 seconds) from the anchor to its timestamp, rounded down:
\* k weeks after the anchor to the second is term k, one second less is
\* term k - 1.
C18_TermIsFloor ==
    (apps # << >> \/ pars # << >>) =>
        LET anchor == Anchor
            Floored(sub) ==
                /\ sub.term >= 0
                /\ sub.term * 604800 <= sub.timestamp - anchor
                /\ sub.timestamp - anchor < (sub.term + 1) * 604800
        IN  /\ \A i \in AppIdx : Floored(apps[i])
            /\ \A i \in ParIdx : Floored(pars[i])

\* one submission exactly on the boundary of two terms and one a second
\* before it
C18_Witness ==
    \E r1, r2 \in AllRefs :
        /\ Sub(r2).term >= 1
        /\ Sub(r2).timestamp - Anchor = Sub(r2).term * 604800
        /\ Sub(r1).timestamp = Sub(r2).timestamp - 1
        /\ Sub(r1).term = Sub(r2).term - 1

-----------------------------------------------------------------------------
(* The key of deduplication.                                                *)

\* C19: no two of the clean submissions that deduplication groups under one
\* person, whatever their roles, have the same timestamp and the same
\* row_index.
C19_KeyIsTotal ==
    \A r1, r2 \in Range(candidates) :
        (r1 # r2 /\ Sub(r1).person_id = Sub(r2).person_id) =>
            <<Sub(r1).timestamp, Sub(r1).row_index>>
                # <<Sub(r2).timestamp, Sub(r2).row_index>>

-----------------------------------------------------------------------------
(* Outcomes and allocation rows.                                            *)

\* the submissions of the term, of a role, that have S0 and a given person
Successes(refs, id) ==
    {ref \in refs : Sub(ref).error = "S0" /\ Sub(ref).person_id = id}

RowIdx == 1..Len(valid_rows)

\* paired_partner_ids and valid_rows are complete and every code is set:
\* each row has one S0 applicant and, with a partner, one S0 partner; each S0
\* submission is in one row, in its role
RowsMatchCodes ==
    /\ \A k \in RowIdx :
        /\ Cardinality(Successes(TermAppRefs, valid_rows[k][1])) = 1
        /\ valid_rows[k][3] # EMPTY =>
            Cardinality(Successes(TermParRefs, valid_rows[k][3])) = 1
    /\ \A ref \in TermAppRefs :
        Sub(ref).error = "S0" =>
            Cardinality({k \in RowIdx : valid_rows[k][1] = Sub(ref).person_id}) = 1
    /\ \A ref \in TermParRefs :
        Sub(ref).error = "S0" =>
            Cardinality({k \in RowIdx : valid_rows[k][3] = Sub(ref).person_id}) = 1

\* lines 276-278: an applicant still clean whose partner is not in
\* partner_by_id or has a code
PartnerGone ==
    {ref \in KeptApps :
        /\ Sub(ref).error = None
        /\ Sub(ref).has_partner = WITH_PARTNER
        /\ \A par \in KeptPars :
            Sub(par).person_id = Sub(ref).partner_id => Sub(par).error # None}

\* lines 312-313 and 317-318: a submission still clean at the classifier that
\* is in no row in its role
LeftOver ==
    {ref \in TermRefs :
        /\ Sub(ref).error = None
        /\ \A k \in RowIdx :
            valid_rows[k][IF ref[1] = "app" THEN 1 ELSE 3] # Sub(ref).person_id}

\* C20: when process_term returns, the rows and the S0 submissions of the
\* term correspond one to one in each role; when the pairs are made no clean
\* applicant has a partner that is absent or rejected, and when the codes are
\* set no clean submission is outside the rows.
C20_RowsAndCodesAgree ==
    /\ Returned => RowsMatchCodes
    /\ pc = "pairs" => PartnerGone = {}
    /\ pc = "success" => LeftOver = {}

\* a term with a row of a pair and a row of a single applicant
C20_Witness ==
    /\ Returned
    /\ \E k \in RowIdx : valid_rows[k][3] # EMPTY
    /\ \E k \in RowIdx : valid_rows[k][3] = EMPTY
    /\ Cardinality({ref \in TermRefs : Sub(ref).error = "S0"}) = 3

====
